---- MODULE Spec2Model ----
(***************************************************************************)
(* A model of conda_smithy/lint_recipe.py: the section accessor            *)
(* (get_section, get_list_section), the rule pass lintify, the conda-forge *)
(* advisory rules run_conda_forge_specific and the raw-line classifier     *)
(* is_selector_line.                                                       *)
(*                                                                         *)
(* A parsed YAML value is a record [t, s, l, m]: t is the Python type      *)
(* ("map", "list", "str", "int", "null"), s the text of a string, l the    *)
(* items of a list and m the items of a mapping in document order, each    *)
(* [k |-> key, v |-> value].  Python strings are TLA+ strings, a findings  *)
(* list is a sequence of message strings.  A Python exception that         *)
(* escapes a function is the flag "raise" of its result.  A backquote in   *)
(* a message of the source is written as a quote here.                     *)
(***************************************************************************)
EXTENDS Naturals, Sequences, FiniteSets, TLC

VARIABLES
    pc,           \* position of the call being modelled
    meta,         \* the parsed document (argument meta of lintify)
    recipe_dir,   \* argument recipe_dir: "None" or a directory path
    conda_forge,  \* argument conda_forge
    fs,           \* the file system: the paths that exist, and meta.yaml's lines
    gh,           \* the remote service: what every lookup answers
    sec_name,     \* argument name of a direct get_section call
    ret,          \* value returned by a direct get_section call
    lints,        \* the accumulator lints
    hints,        \* the accumulator hints
    gh_calls,     \* the get_user calls made by the maintainer loop, in order
    raised_in     \* the rule an exception escaped from, "" while there is none

vars == <<pc, meta, recipe_dir, conda_forge, fs, gh, sec_name, ret, lints, hints,
          gh_calls, raised_in>>
inputs == <<meta, recipe_dir, conda_forge, fs, gh, sec_name, ret>>

(***************************** bounds **************************************)
MaxPrior == 1      \* findings already in the accumulator before a direct call
MaxKeys == 3       \* top-level keys of a document
MaxBad == 2        \* wrong-shaped top-level sections of a document
MaxOutputs == 2    \* entries of the outputs section
MaxLines == 3      \* lines of meta.yaml
MaxMaintainers == 2  \* entries of extra.recipe-maintainers

(************************ Python strings ***********************************)
Ch(s, i) == SubSeq(s, i, i)

IsSpace(c) == c \in {" ", "\t", "\n"}

RECURSIVE Lstrip(_)
Lstrip(s) == IF s = "" THEN ""
             ELSE IF IsSpace(Ch(s, 1)) THEN Lstrip(SubSeq(s, 2, Len(s))) ELSE s

RECURSIVE Rstrip(_)
Rstrip(s) == IF s = "" THEN ""
             ELSE IF IsSpace(Ch(s, Len(s))) THEN Rstrip(SubSeq(s, 1, Len(s) - 1)) ELSE s

Strip(s) == Lstrip(Rstrip(s))

StartsWith(s, p) == Len(s) >= Len(p) /\ SubSeq(s, 1, Len(p)) = p

\* sub in s
Contains(sub, s) ==
    \E i \in 1..(Len(s) + 1) :
        i + Len(sub) - 1 <= Len(s) /\ SubSeq(s, i, i + Len(sub) - 1) = sub

\* s[:-n]: Python reads -0 as 0, so s[:-0] is the empty string
SliceToMinus(s, n) == IF n = 0 \/ n >= Len(s) THEN "" ELSE SubSeq(s, 1, Len(s) - n)

UpperChars == <<"A", "B", "C", "D", "E", "F", "G", "H", "I", "J", "K", "L", "M",
                "N", "O", "P", "Q", "R", "S", "T", "U", "V", "W", "X", "Y", "Z">>
LowerChars == <<"a", "b", "c", "d", "e", "f", "g", "h", "i", "j", "k", "l", "m",
                "n", "o", "p", "q", "r", "s", "t", "u", "v", "w", "x", "y", "z">>

LowerCh(c) == IF \E i \in 1..26 : UpperChars[i] = c
              THEN LowerChars[CHOOSE i \in 1..26 : UpperChars[i] = c] ELSE c

RECURSIVE Lower(_)
Lower(s) == IF s = "" THEN "" ELSE LowerCh(Ch(s, 1)) \o Lower(SubSeq(s, 2, Len(s)))

RECURSIVE Join(_, _)
Join(sep, seq) == IF seq = <<>> THEN ""
                  ELSE IF Len(seq) = 1 THEN seq[1]
                  ELSE seq[1] \o sep \o Join(sep, Tail(seq))

(************************ parsed YAML values *******************************)
VStr(s) == [t |-> "str", s |-> s, l |-> <<>>, m |-> <<>>]
VInt == [t |-> "int", s |-> "5", l |-> <<>>, m |-> <<>>]
VNull == [t |-> "null", s |-> "", l |-> <<>>, m |-> <<>>]
VList(l) == [t |-> "list", s |-> "", l |-> l, m |-> <<>>]
VMap(m) == [t |-> "map", s |-> "", l |-> <<>>, m |-> m]
KV(k, v) == [k |-> k, v |-> v]

IsMapping(v) == v.t = "map"
\* isinstance(v, Sequence): lists and strings
IsSequence(v) == v.t \in {"list", "str"}
IsStr(v) == v.t = "str"

\* type(v).__name__ and type(v).__module__
TypeName(v) == CASE v.t = "map" -> "dict" [] v.t = "list" -> "list" [] v.t = "str" -> "str"
                 [] v.t = "int" -> "int" [] OTHER -> "NoneType"
TypeModule(v) == "builtins"

\* bool(v)
Truthy(v) == CASE v.t = "map" -> v.m # <<>> [] v.t = "list" -> v.l # <<>>
               [] v.t = "str" -> v.s # "" [] v.t = "int" -> TRUE [] OTHER -> FALSE

Keys(v) == [i \in 1..Len(v.m) |-> v.m[i].k]
HasKey(v, k) == \E i \in 1..Len(v.m) : v.m[i].k = k
\* v.get(k, default) of a mapping v
Get(v, k, default) == IF HasKey(v, k)
                      THEN v.m[CHOOSE i \in 1..Len(v.m) : v.m[i].k = k].v
                      ELSE default
Range(seq) == {seq[i] : i \in 1..Len(seq)}

(************************ module constants *********************************)
EXPECTED_SECTION_ORDER == <<"package", "source", "build", "requirements",
                            "test", "app", "outputs", "about", "extra">>
REQUIREMENTS_ORDER == <<"build", "host", "run">>
TEST_KEYS == {"imports", "commands"}
TEST_FILES == <<"run_test.py", "run_test.sh", "run_test.bat", "run_test.pl">>

(************************ the section accessor *****************************)
\* The result of a call: the value returned, the findings appended, and whether
\* an exception escaped.
Res(val, ls, raised) == [val |-> val, lints |-> ls, raise |-> raised]

ListShapeMsg(name, allow_single, section) ==
    "The \"" \o name \o "\" section was expected to be a "
    \o (IF allow_single THEN "dictionary or a " ELSE "") \o "list, but got a "
    \o TypeModule(section) \o "." \o TypeName(section) \o "."

MapShapeMsg(name, section) ==
    "The \"" \o name \o "\" section was expected to be a dictionary, but got a "
    \o TypeName(section) \o "."

\* get_list_section with allow_single taken as always set
get_list_section_any_single(parent, name, allow_single) ==
    IF ~IsMapping(parent) THEN Res(VNull, <<>>, TRUE)
    ELSE LET section == Get(parent, name, VList(<<>>)) IN
         IF IsMapping(section) THEN Res(VList(<<section>>), <<>>, FALSE)
         ELSE IF IsSequence(section) /\ ~IsStr(section) THEN Res(section, <<>>, FALSE)
         ELSE Res(VList(<<VMap(<<>>)>>),
                  <<ListShapeMsg(name, allow_single, section)>>, FALSE)

\* get_list_section with allow_single taken as never set
get_list_section_no_single(parent, name, allow_single) ==
    IF ~IsMapping(parent) THEN Res(VNull, <<>>, TRUE)
    ELSE LET section == Get(parent, name, VList(<<>>)) IN
         IF IsSequence(section) /\ ~IsStr(section) THEN Res(section, <<>>, FALSE)
         ELSE Res(VList(<<VMap(<<>>)>>),
                  <<ListShapeMsg(name, allow_single, section)>>, FALSE)

\* lines 61-72
get_list_section(parent, name, allow_single) ==
    IF ~IsMapping(parent) THEN Res(VNull, <<>>, TRUE)
    ELSE LET section == Get(parent, name, VList(<<>>)) IN
         IF allow_single /\ IsMapping(section) THEN Res(VList(<<section>>), <<>>, FALSE)
         ELSE IF IsSequence(section) /\ ~IsStr(section) THEN Res(section, <<>>, FALSE)
         ELSE Res(VList(<<VMap(<<>>)>>),
                  <<ListShapeMsg(name, allow_single, section)>>, FALSE)

get_section(parent, name) ==
    IF name = "source" THEN get_list_section(parent, name, TRUE)
    ELSE IF name = "outputs" THEN get_list_section(parent, name, FALSE)
    ELSE IF ~IsMapping(parent) THEN Res(VNull, <<>>, TRUE)
    ELSE LET section == Get(parent, name, VMap(<<>>)) IN
         IF ~IsMapping(section) THEN Res(VMap(<<>>), <<MapShapeMsg(name, section)>>, FALSE)
         ELSE Res(section, <<>>, FALSE)

(************************ findings of one rule *****************************)
\* What one rule adds: errors, hints, and whether an exception escaped it.
Out(ls, hs, raised) == [lints |-> ls, hints |-> hs, raise |-> raised]
NoOut == Out(<<>>, <<>>, FALSE)
\* b followed by a, unless b raised
Then(a, b) == IF a.raise THEN a
              ELSE Out(a.lints \o b.lints, a.hints \o b.hints, b.raise)

RECURSIVE ThenAll(_)
ThenAll(outs) == IF outs = <<>> THEN NoOut ELSE Then(outs[1], ThenAll(Tail(outs)))

\* x in c, for a string x: [v |-> the answer, raise |-> TypeError]
PyIn(x, c) ==
    CASE c.t = "map" -> [v |-> HasKey(c, x), raise |-> FALSE]
      [] c.t = "list" -> [v |-> \E i \in 1..Len(c.l) : c.l[i] = VStr(x), raise |-> FALSE]
      [] c.t = "str" -> [v |-> Contains(x, c.s), raise |-> FALSE]
      [] OTHER -> [v |-> FALSE, raise |-> TRUE]

\* '{}'.format(v)
Fmt(v) == CASE v.t = "str" -> v.s [] v.t = "int" -> v.s [] v.t = "null" -> "None"
            [] v.t = "list" -> "[...]" [] OTHER -> "{...}"

Digits == <<"0", "1", "2", "3", "4", "5", "6", "7", "8", "9">>
RECURSIVE IntStr(_)
IntStr(n) == IF n < 10 THEN Digits[n + 1] ELSE IntStr(n \div 10) \o Digits[(n % 10) + 1]

\* str(list of ints)
IntListStr(ns) == "[" \o Join(", ", [i \in 1..Len(ns) |-> IntStr(ns[i])]) \o "]"

(************************ the normalized sections **************************)
sources_section(m) == get_section(m, "source")
build_section(m) == get_section(m, "build")
requirements_section(m) == get_section(m, "requirements")
test_section(m) == get_section(m, "test")
about_section(m) == get_section(m, "about")
extra_section(m) == get_section(m, "extra")
package_section(m) == get_section(m, "package")
outputs_section(m) == get_section(m, "outputs")

\* os.path.join(recipe_dir or '', 'meta.yaml'); "None" stands for None
PathJoin(dir, name) == IF dir = "" \/ Ch(dir, Len(dir)) = "/" THEN dir \o name
                       ELSE dir \o "/" \o name
meta_fname(dir) == PathJoin(IF dir = "None" THEN "" ELSE dir, "meta.yaml")
Exists(f, path) == path \in f.paths

\* lines 104-111
Normalize(m) ==
    Out(sources_section(m).lints \o build_section(m).lints
        \o requirements_section(m).lints \o test_section(m).lints
        \o about_section(m).lints \o extra_section(m).lints
        \o package_section(m).lints \o outputs_section(m).lints, <<>>, FALSE)

(************************ rules 0 and 1: top-level keys ********************)
IndexOf(seq, x) == CHOOSE i \in 1..Len(seq) : seq[i] = x /\ \A j \in 1..(i - 1) : seq[j] # x

\* list.remove(x): drops the first occurrence
RemoveFirst(seq, x) ==
    LET i == IndexOf(seq, x) IN SubSeq(seq, 1, i - 1) \o SubSeq(seq, i + 1, Len(seq))

RECURSIVE RemoveAll(_, _)
RemoveAll(seq, xs) == IF xs = <<>> THEN seq
                      ELSE RemoveAll(RemoveFirst(seq, xs[1]), Tail(xs))

\* sorted(seq, key=order.index): stable insertion by index
RECURSIVE InsertByIndex(_, _, _)
InsertByIndex(sorted, x, order) ==
    IF sorted = <<>> THEN <<x>>
    ELSE IF IndexOf(order, x) < IndexOf(order, sorted[1]) THEN <<x>> \o sorted
    ELSE <<sorted[1]>> \o InsertByIndex(Tail(sorted), x, order)

RECURSIVE SortedByIndex(_, _)
SortedByIndex(seq, order) ==
    IF seq = <<>> THEN <<>>
    ELSE InsertByIndex(SortedByIndex(SubSeq(seq, 1, Len(seq) - 1), order),
                       seq[Len(seq)], order)

OrderMsg(sorted) ==
    "The top level meta keys are in an unexpected order. Expecting ["
    \o Join(", ", [i \in 1..Len(sorted) |-> "'" \o sorted[i] \o "'"]) \o "]."

\* lint_section_order with sorted() called without its key
ALPHABETICAL_ORDER == <<"about", "app", "build", "extra", "outputs", "package",
                        "requirements", "source", "test">>
lint_section_order_no_key(major_sections) ==
    LET section_order_sorted == SortedByIndex(major_sections, ALPHABETICAL_ORDER) IN
    IF major_sections # section_order_sorted
    THEN <<OrderMsg(section_order_sorted)>> ELSE <<>>

lint_section_order(major_sections) ==
    LET section_order_sorted == SortedByIndex(major_sections, EXPECTED_SECTION_ORDER) IN
    IF major_sections # section_order_sorted
    THEN <<OrderMsg(section_order_sorted)>> ELSE <<>>

UnexpectedMsg(section) == "The top level meta key " \o section \o " is unexpected"

IsExpected(k) == k \in Range(EXPECTED_SECTION_ORDER)
unexpected_sections(m) == SelectSeq(Keys(m), LAMBDA k : ~IsExpected(k))
\* major_sections after lines 120-121
major_sections(m) == RemoveAll(Keys(m), unexpected_sections(m))

\* lines 113-124
TopLevelKeys(m) ==
    Out([i \in 1..Len(unexpected_sections(m)) |-> UnexpectedMsg(unexpected_sections(m)[i])]
        \o lint_section_order(major_sections(m)), <<>>, FALSE)

(************************ rules 2, 3a, 3b **********************************)
AboutMsg(item) == "The " \o item \o " item is expected in the about section."

lint_about_contents(about) ==
    LET items == <<"home", "license", "summary">> IN
    SelectSeq([i \in 1..3 |-> IF ~Truthy(Get(about, items[i], VStr("")))
                               THEN AboutMsg(items[i]) ELSE ""],
              LAMBDA x : x # "")

MaintainersMsg == "The recipe could do with some maintainers listed in the 'extra/recipe-maintainers' section."
MaintainersListMsg == "Recipe maintainers should be a json list."

\* lines 126-138
AboutAndMaintainers(m) ==
    LET maintainers == Get(extra_section(m).val, "recipe-maintainers", VList(<<>>)) IN
    Out(lint_about_contents(about_section(m).val)
        \o (IF ~Truthy(maintainers) THEN <<MaintainersMsg>> ELSE <<>>)
        \o (IF ~(IsSequence(maintainers) /\ ~IsStr(maintainers))
            THEN <<MaintainersListMsg>> ELSE <<>>), <<>>, FALSE)

(************************ rule 4: tests ************************************)
TestsMsg == "The recipe must have some tests."
NoTestHint(out) ==
    "It looks like the '" \o Fmt(Get(out, "name", VStr("???")))
    \o "' output doesn't have any tests."

HasTestKey(section) == \E i \in 1..Len(section.m) : section.m[i].k \in TEST_KEYS

a_test_file_exists(dir, f) ==
    dir # "None" /\ \E i \in 1..Len(TEST_FILES) : Exists(f, PathJoin(dir, TEST_FILES[i]))

\* The loop of lines 150-157 over outs: the findings get_section appends, the
\* hints collected, has_outputs_test, and whether out.get raised.
RECURSIVE OutputsLoop(_)
OutputsLoop(outs) ==
    IF outs = <<>> THEN [lints |-> <<>>, no_test_hints |-> <<>>, has |-> FALSE, raise |-> FALSE]
    ELSE LET out == outs[1]
             test_out == get_section(out, "test")
         IN IF test_out.raise
            THEN [lints |-> <<>>, no_test_hints |-> <<>>, has |-> FALSE, raise |-> TRUE]
            ELSE LET rest == OutputsLoop(Tail(outs))
                     mine == HasTestKey(test_out.val)
                 IN [lints |-> test_out.lints \o rest.lints,
                     no_test_hints |-> (IF mine THEN <<>> ELSE <<NoTestHint(out)>>)
                                       \o rest.no_test_hints,
                     has |-> mine \/ rest.has,
                     raise |-> rest.raise]

\* lines 140-162
Tests(m, dir, f) ==
    IF HasTestKey(test_section(m).val) \/ a_test_file_exists(dir, f) THEN NoOut
    ELSE LET loop == OutputsLoop(outputs_section(m).val.l) IN
         IF loop.raise THEN Out(loop.lints, <<>>, TRUE)
         ELSE IF loop.has THEN Out(loop.lints, loop.no_test_hints, FALSE)
         ELSE Out(loop.lints \o <<TestsMsg>>, <<>>, FALSE)

(************************ regular expressions ******************************)
\* A pattern is a sequence of items [c, lo, many]: exactly lo characters of
\* class c, or lo and more when many holds, where c is "any" (.), "ws" (\s),
\* "nonws" ([^\s]), "nobr" ([^\[\]]), "END" ($) or one literal character.
One(c) == [c |-> c, lo |-> 1, many |-> FALSE]
Star(c) == [c |-> c, lo |-> 0, many |-> TRUE]
Plus(c) == [c |-> c, lo |-> 1, many |-> TRUE]
AtLeast(n, c) == [c |-> c, lo |-> n, many |-> TRUE]
End == [c |-> "END", lo |-> 0, many |-> FALSE]

InClass(ch, c) == CASE c = "any" -> ch # "\n"
                    [] c = "ws" -> IsSpace(ch)
                    [] c = "nonws" -> ~IsSpace(ch)
                    [] c = "nobr" -> ch \notin {"[", "]"}
                    [] OTHER -> ch = c

\* items i.. of pattern p match s from position j on (re.match: a prefix)
RECURSIVE ReMatchFrom(_, _, _, _)
ReMatchFrom(p, i, s, j) ==
    IF i > Len(p) THEN TRUE
    ELSE IF p[i].c = "END"
    THEN (j = Len(s) + 1 \/ (j = Len(s) /\ Ch(s, j) = "\n")) /\ ReMatchFrom(p, i + 1, s, j)
    ELSE \E n \in p[i].lo..(IF p[i].many THEN Len(s) - j + 1 ELSE p[i].lo) :
            /\ j + n - 1 <= Len(s)
            /\ \A k \in j..(j + n - 1) : InClass(Ch(s, k), p[i].c)
            /\ ReMatchFrom(p, i + 1, s, j + n)

ReMatch(p, s) == ReMatchFrom(p, 1, s, 1)

\* sel_pat, line 43: (.+?)\s*(#.*)?\[([^\[\]]+)\](?(2).*)$ is one pattern without
\* the comment group and one with it
sel_pat_plain == <<Plus("any"), Star("ws"), One("["), Plus("nobr"), One("]"), End>>
sel_pat_comment == <<Plus("any"), Star("ws"), One("#"), Star("any"), One("["),
                     Plus("nobr"), One("]"), Star("any"), End>>
\* jinja_pat, line 44
jinja_pat == <<Star("ws"), One("{"), One("%"), Star("ws"), One("s"), One("e"), One("t"),
               Plus("ws"), Plus("nonws"), Star("ws"), One("="), Star("ws"),
               Plus("nonws"), Star("ws"), One("%"), One("}")>>
\* good_selectors_pat, line 174
good_selectors_pat == <<Plus("any"), AtLeast(2, "ws"), One("#"), One("ws"), One("["),
                        Plus("any"), One("]"), Star("any"), End>>
\* good_jinja_pat, line 308
good_jinja_pat == <<Star("ws"), One("{"), One("%"), One("ws"), One("s"), One("e"), One("t"),
                    One("ws"), Plus("nonws"), One("ws"), One("="), One("ws"),
                    Plus("nonws"), One("ws"), One("%"), One("}")>>

is_selector_line(line0) ==
    LET line == Rstrip(line0) IN
    IF StartsWith(Lstrip(line), "#") THEN FALSE
    ELSE ReMatch(sel_pat_plain, line) \/ ReMatch(sel_pat_comment, line)

is_jinja_line(line0) == ReMatch(jinja_pat, Rstrip(line0))

\* enumerate() numbers of the lines that satisfy is_selector_line / is_jinja_line
LineNumbers(lines, Test(_)) ==
    SelectSeq([i \in 1..Len(lines) |-> i], LAMBDA i : Test(lines[i]))
selector_lines(lines) == LineNumbers(lines, is_selector_line)
jinja_lines(lines) == LineNumbers(lines, is_jinja_line)

(************************ rules 5 to 13 ************************************)
LicenseUnknownMsg == "The recipe license cannot be unknown."
LicenseWordMsg == "The recipe 'license' should not include the word \"License\"."
BuildNumberMsg == "The recipe must have a 'build/number' section."
ChecksumMsg == "When defining a source/url please add a sha256, sha1 or md5 checksum (sha256 preferably)."
NameMsg == "Recipe name has invalid characters. only lowercase alpha, numeric, underscores, hyphens and dots allowed"

\* rule 5, lines 164-167; .lower() of a value that is no string raises
LicenseUnknown(m) ==
    LET license == Get(about_section(m).val, "license", VStr("")) IN
    IF ~IsStr(license) THEN Out(<<>>, <<>>, TRUE)
    ELSE IF "unknown" = Strip(Lower(license.s)) THEN Out(<<LicenseUnknownMsg>>, <<>>, FALSE)
    ELSE NoOut

\* rule 6, lines 169-183
SelectorsTidy(dir, f) ==
    IF dir # "None" /\ Exists(f, meta_fname(dir))
    THEN LET bad_lines == SelectSeq(selector_lines(f.lines),
                                    LAMBDA i : ~ReMatch(good_selectors_pat, f.lines[i]))
         IN IF bad_lines # <<>>
            THEN Out(<<"Selectors are suggested to take a ''<two spaces>#<one space>[<expression>]'' form. See lines "
                       \o IntListStr([i \in 1..Len(bad_lines) |-> bad_lines[i] - 1])>>,
                     <<>>, FALSE)
            ELSE NoOut
    ELSE NoOut

\* rule 7, lines 185-187
BuildNumber(m) ==
    IF Get(build_section(m).val, "number", VNull).t = "null"
    THEN Out(<<BuildNumberMsg>>, <<>>, FALSE) ELSE NoOut

\* rule 8, lines 189-197
RequirementsOrder(m) ==
    LET seen_requirements == SelectSeq(Keys(requirements_section(m).val),
                                       LAMBDA k : k \in Range(REQUIREMENTS_ORDER))
        requirements_order_sorted == SortedByIndex(seen_requirements, REQUIREMENTS_ORDER)
    IN IF seen_requirements # requirements_order_sorted
       THEN Out(<<"The 'requirements/' sections should be defined in the following order: "
                  \o Join(", ", REQUIREMENTS_ORDER) \o "; instead saw: "
                  \o Join(", ", seen_requirements) \o ".">>, <<>>, FALSE)
       ELSE NoOut

\* rule 9, lines 199-204: 'url' in entry, then entry.keys()
RECURSIVE ChecksumLoop(_)
ChecksumLoop(entries) ==
    IF entries = <<>> THEN NoOut
    ELSE LET e == entries[1]
             has_url == PyIn("url", e)
             mine == IF has_url.raise THEN Out(<<>>, <<>>, TRUE)
                     ELSE IF ~has_url.v THEN NoOut
                     ELSE IF ~IsMapping(e) THEN Out(<<>>, <<>>, TRUE)
                     ELSE IF {"sha1", "sha256", "md5"} \cap Range(Keys(e)) = {}
                     THEN Out(<<ChecksumMsg>>, <<>>, FALSE)
                     ELSE NoOut
         IN Then(mine, ChecksumLoop(Tail(entries)))

Checksums(m) == ChecksumLoop(sources_section(m).val.l)

\* rule 10, lines 206-210
LicenseWord(m) ==
    LET license == Get(about_section(m).val, "license", VStr("")) IN
    IF ~IsStr(license) THEN Out(<<>>, <<>>, TRUE)
    ELSE IF Contains("license", Lower(Lower(license.s)))
    THEN Out(<<LicenseWordMsg>>, <<>>, FALSE)
    ELSE NoOut

\* f.read(): the lines of the file, each with its newline
FileText(f) == Join("", f.lines)

RECURSIVE TrailingNewlines(_)
TrailingNewlines(text) ==
    IF text # "" /\ Ch(text, Len(text)) = "\n"
    THEN 1 + TrailingNewlines(SubSeq(text, 1, Len(text) - 1)) ELSE 0

\* the empty strings that end text.split('\n')
end_empty_lines_count(text) ==
    IF TrailingNewlines(text) = Len(text) THEN Len(text) + 1 ELSE TrailingNewlines(text)

\* rule 11, lines 212-225
TrailingLines(dir, f) ==
    IF dir # "None" /\ Exists(f, meta_fname(dir))
    THEN LET n == end_empty_lines_count(FileText(f)) IN
         IF n > 1
         THEN Out(<<"There are " \o IntStr(n - 1) \o " too many lines.  There should be one empty line at the end of the file.">>,
                  <<>>, FALSE)
         ELSE IF n < 1
         THEN Out(<<"There are too few lines.  There should be one empty line at the end of the file.">>,
                  <<>>, FALSE)
         ELSE NoOut
    ELSE NoOut

\* rule 12, lines 227-231: conda_build's ensure_valid_license_family raises a
\* RuntimeError for a family it does not know, and the rule records its message
AllowedLicenseFamilies == {"MIT", "BSD", "GPL", "APACHE", "OTHER"}
LicenseFamily(m) ==
    LET about == Get(m, "about", VMap(<<>>)) IN
    IF IsMapping(about) /\ HasKey(about, "license_family")
       /\ Get(about, "license_family", VNull) \notin {VStr(x) : x \in AllowedLicenseFamilies}
    THEN Out(<<"about/license_family '" \o Fmt(Get(about, "license_family", VNull))
               \o "' not allowed">>, <<>>, FALSE)
    ELSE NoOut

\* re.match('^[a-z0-9_\-.]+$', name)
NameChars == Range(LowerChars) \cup Range(Digits) \cup {"_", "-", "."}
ValidName(name) ==
    LET body == IF name # "" /\ Ch(name, Len(name)) = "\n"
                THEN SubSeq(name, 1, Len(name) - 1) ELSE name
    IN body # "" /\ \A i \in 1..Len(body) : Ch(body, i) \in NameChars

\* rule 13, lines 233-237
RecipeName(m) ==
    LET name == Get(package_section(m).val, "name", VStr("")) IN
    IF ~IsStr(name) THEN Out(<<>>, <<>>, TRUE)
    ELSE IF ~ValidName(Strip(name.s)) THEN Out(<<NameMsg>>, <<>>, FALSE)
    ELSE NoOut

(************************ rule 14: the conda-forge advisory rules **********)
\* os.path.basename
RECURSIVE Basename(_)
Basename(path) == IF Contains("/", path)
                  THEN Basename(SubSeq(path, 2, Len(path))) ELSE path

\* what gh.get_user(name) answers: "ok", "notfound" (UnknownObjectException)
\* or "fail" (any other exception)
UserOutcome(g, name) == IF name \in DOMAIN g.user THEN g.user[name] ELSE "notfound"

MaintainerMsg(name) == "Recipe maintainer \"" \o name \o "\" does not exist"
FeedstockMsg == "Feedstock with the same name exists in conda-forge"
BiocondaHint == "Recipe with the same name exists in bioconda: please discuss with @conda-forge/bioconda-recipes."
ExampleMsg == "Please move the recipe out of the example dir and into its own dir."

\* What the advisory rules add: findings, the get_user calls of the maintainer
\* loop, and whether an exception escaped.
Adv(ls, hs, calls, raised) == [lints |-> ls, hints |-> hs, calls |-> calls, raise |-> raised]
AdvThen(a, b) == IF a.raise THEN a
                 ELSE Adv(a.lints \o b.lints, a.hints \o b.hints, a.calls \o b.calls, b.raise)

\* the items "for maintainer in maintainers" visits
Iterate(v) == CASE v.t = "list" -> [items |-> v.l, raise |-> FALSE]
                [] v.t = "str" -> [items |-> [i \in 1..Len(v.s) |-> VStr(Ch(v.s, i))], raise |-> FALSE]
                [] v.t = "map" -> [items |-> [i \in 1..Len(v.m) |-> VStr(v.m[i].k)], raise |-> FALSE]
                [] OTHER -> [items |-> <<>>, raise |-> TRUE]

\* the loop of lines 372-379 if a maintainer that is not found ended it
RECURSIVE MaintainerLoop_until_not_found(_, _)
MaintainerLoop_until_not_found(g, maintainers) ==
    IF maintainers = <<>> THEN Adv(<<>>, <<>>, <<>>, FALSE)
    ELSE LET maintainer == maintainers[1]
             is_team == PyIn("/", maintainer)
         IN IF is_team.raise THEN Adv(<<>>, <<>>, <<>>, TRUE)
            ELSE IF is_team.v THEN MaintainerLoop_until_not_found(g, Tail(maintainers))
            ELSE IF ~IsStr(maintainer) THEN Adv(<<>>, <<>>, <<Fmt(maintainer)>>, TRUE)
            ELSE IF UserOutcome(g, maintainer.s) = "ok"
            THEN AdvThen(Adv(<<>>, <<>>, <<maintainer.s>>, FALSE),
                         MaintainerLoop_until_not_found(g, Tail(maintainers)))
            ELSE IF UserOutcome(g, maintainer.s) = "notfound"
            THEN Adv(<<MaintainerMsg(maintainer.s)>>, <<>>, <<maintainer.s>>, FALSE)
            ELSE Adv(<<>>, <<>>, <<maintainer.s>>, TRUE)

\* lines 372-379
RECURSIVE MaintainerLoop(_, _)
MaintainerLoop(g, maintainers) ==
    IF maintainers = <<>> THEN Adv(<<>>, <<>>, <<>>, FALSE)
    ELSE LET maintainer == maintainers[1]
             is_team == PyIn("/", maintainer)
             mine == IF is_team.raise THEN Adv(<<>>, <<>>, <<>>, TRUE)
                     ELSE IF is_team.v THEN Adv(<<>>, <<>>, <<>>, FALSE)
                     ELSE IF ~IsStr(maintainer) THEN Adv(<<>>, <<>>, <<Fmt(maintainer)>>, TRUE)
                     ELSE LET answer == UserOutcome(g, maintainer.s) IN
                          IF answer = "ok" THEN Adv(<<>>, <<>>, <<maintainer.s>>, FALSE)
                          ELSE IF answer = "notfound"
                          THEN Adv(<<MaintainerMsg(maintainer.s)>>, <<>>, <<maintainer.s>>, FALSE)
                          ELSE Adv(<<>>, <<>>, <<maintainer.s>>, TRUE)
         IN AdvThen(mine, MaintainerLoop(g, Tail(maintainers)))

\* lines 349-368
StagedChecks(g) ==
    IF g.org # "ok" THEN Adv(<<>>, <<>>, <<>>, TRUE)
    ELSE IF g.feedstock = "fail" THEN Adv(<<>>, <<>>, <<>>, TRUE)
    ELSE LET first == IF g.feedstock = "ok" THEN <<FeedstockMsg>> ELSE <<>> IN
         IF g.bioconda # "ok" \/ g.bio = "fail" THEN Adv(first, <<>>, <<>>, TRUE)
         ELSE Adv(first, IF g.bio = "ok" THEN <<BiocondaHint>> ELSE <<>>, <<>>, FALSE)

\* lines 341-384
run_conda_forge_specific(m, dir, g) ==
    IF ~g.token THEN Adv(<<>>, <<>>, <<>>, TRUE)
    ELSE LET package == get_section(m, "package")
             extra == get_section(m, "extra")
             shape == Adv(package.lints \o extra.lints, <<>>, <<>>, FALSE)
             recipe_dirname == IF dir # "None" /\ dir # "" THEN Basename(dir) ELSE "recipe"
             name == Get(package.val, "name", VStr(""))
         IN IF ~IsStr(name) THEN AdvThen(shape, Adv(<<>>, <<>>, <<>>, TRUE))
            ELSE LET recipe_name == Strip(name.s)
                     is_staged_recipes == recipe_dirname # "recipe"
                     staged == IF is_staged_recipes /\ recipe_name # "" THEN StagedChecks(g)
                               ELSE Adv(<<>>, <<>>, <<>>, FALSE)
                     maintainers == Iterate(Get(extra.val, "recipe-maintainers", VList(<<>>)))
                     loop == IF maintainers.raise THEN Adv(<<>>, <<>>, <<>>, TRUE)
                             ELSE MaintainerLoop(g, maintainers.items)
                     example == IF dir # "None" /\ Contains("recipes/example/", dir)
                                THEN Adv(<<ExampleMsg>>, <<>>, <<>>, FALSE)
                                ELSE Adv(<<>>, <<>>, <<>>, FALSE)
                 IN AdvThen(shape, AdvThen(staged, AdvThen(loop, example)))

\* lines 239-241
CondaForgeAdv(m, dir, forge, g) ==
    IF forge THEN run_conda_forge_specific(m, dir, g) ELSE Adv(<<>>, <<>>, <<>>, FALSE)
CondaForge(m, dir, forge, g) ==
    LET a == CondaForgeAdv(m, dir, forge, g) IN Out(a.lints, a.hints, a.raise)

(************************ rules 15 to 21 and the hint **********************)
NumpyMsg == "Using pinned numpy packages is a deprecated pattern.  Consider using the method outlined [here](https://conda-forge.org/docs/meta.html#building-against-numpy)."
ToolchainMsg == "Using toolchain directly in this manner is deprecated.  Consider using the compilers outlined [here](https://conda-forge.org/docs/meta.html#compilers)."
PipHint == "Whenever possible python packages should use pip. See https://conda-forge.org/docs/meta.html#use-pip"

\* "if build_reqs and (token in build_reqs)" of lines 245 and 322
BuildReqsRule(m, token, msg) ==
    LET build_reqs == Get(requirements_section(m).val, "build", VNull) IN
    IF ~Truthy(build_reqs) THEN NoOut
    ELSE LET found == PyIn(token, build_reqs) IN
         IF found.raise THEN Out(<<>>, <<>>, TRUE)
         ELSE IF found.v THEN Out(<<msg>>, <<>>, FALSE) ELSE NoOut

\* rule 15, lines 243-248
NumpyPin(m) == BuildReqsRule(m, "numpy x.x", NumpyMsg)
\* rule 21, lines 321-325
Toolchain(m) == BuildReqsRule(m, "toolchain", ToolchainMsg)

\* FIELDS, lines 20-33: conda_build's field names of every section, with
\* recipe-maintainers added to extra
FIELDS(section) ==
    CASE section = "package" -> {"name", "version"}
      [] section = "source" -> {"fn", "url", "md5", "sha1", "sha256", "path", "git_url",
                                "git_rev", "patches", "folder"}
      [] section = "build" -> {"number", "string", "entry_points", "script", "noarch",
                               "skip", "script_env", "run_exports"}
      [] section = "requirements" -> {"build", "host", "run", "conflicts", "run_constrained"}
      [] section = "test" -> {"requires", "commands", "files", "imports", "source_files"}
      [] section = "app" -> {"entry", "icon", "summary", "type", "cli_opts", "own_environment"}
      [] section = "outputs" -> {"name", "version", "number", "script", "build",
                                 "requirements", "test", "about", "extra", "files", "type"}
      [] section = "about" -> {"home", "dev_url", "doc_url", "license_url", "license",
                               "summary", "description", "license_family", "license_file"}
      [] section = "extra" -> {"recipe-maintainers"}
      [] OTHER -> {}

SubsectionMsg(section, name) ==
    "The " \o section \o " section contained an unexpected subsection name. "
    \o name \o " is not a valid subsection name."

BadNames(section, names) ==
    LET bad == SelectSeq(names, LAMBDA n : n \notin FIELDS(section)) IN
    [i \in 1..Len(bad) |-> SubsectionMsg(section, bad[i])]

\* lines 263-267 for the entries of source or outputs
RECURSIVE EntriesLoop(_, _)
EntriesLoop(section, entries) ==
    IF entries = <<>> THEN NoOut
    ELSE LET it == Iterate(entries[1])
             mine == IF it.raise \/ \E i \in 1..Len(it.items) : it.items[i].t \in {"list", "map"}
                     THEN Out(<<>>, <<>>, TRUE)
                     ELSE Out(BadNames(section, [i \in 1..Len(it.items) |-> Fmt(it.items[i])]),
                              <<>>, FALSE)
         IN Then(mine, EntriesLoop(section, Tail(entries)))

\* lines 252-267 for one section
SubsectionsOf(m, section) ==
    IF FIELDS(section) = {} THEN NoOut
    ELSE LET sec == get_section(m, section) IN
         IF section # "source" /\ section # "outputs"
         THEN Out(sec.lints \o BadNames(section, Keys(sec.val)), <<>>, FALSE)
         ELSE Then(Out(sec.lints, <<>>, FALSE), EntriesLoop(section, sec.val.l))

\* rule 16, lines 250-267
Subsections(m) ==
    LET ms == major_sections(m) IN
    ThenAll([i \in 1..Len(ms) |-> SubsectionsOf(m, ms[i])])

\* line[:-len(line.lstrip())]
Spacing(line) == SliceToMinus(line, Len(Lstrip(line)))

\* The loop of lines 274-293 over lines: TRUE when it appends the error.
RECURSIVE NoarchScan(_, _, _)
NoarchScan(lines, in_requirements, requirements_spacing) ==
    IF lines = <<>> THEN FALSE
    ELSE LET line == lines[1]
             line_s == Strip(line)
         IN IF line_s = "requirements:" THEN NoarchScan(Tail(lines), TRUE, Spacing(line))
            ELSE IF StartsWith(line_s, "skip:") /\ is_selector_line(line) THEN TRUE
            ELSE IF in_requirements
            THEN IF requirements_spacing = Spacing(line)
                 THEN NoarchScan(Tail(lines), FALSE, requirements_spacing)
                 ELSE IF is_selector_line(line) THEN TRUE
                 ELSE NoarchScan(Tail(lines), TRUE, requirements_spacing)
            ELSE NoarchScan(Tail(lines), FALSE, requirements_spacing)

NoarchMsg(noarch) ==
    "'noarch' packages can't have selectors. If the selectors are necessary, please remove 'noarch: "
    \o Fmt(noarch) \o "'."

\* rule 17, lines 270-293
NoarchSelectors(m, dir, f) ==
    LET noarch == Get(build_section(m).val, "noarch", VNull) IN
    IF noarch.t # "null" /\ Exists(f, meta_fname(dir)) /\ NoarchScan(f.lines, FALSE, "")
    THEN Out(<<NoarchMsg(noarch)>>, <<>>, FALSE)
    ELSE NoOut

\* conda_build's VersionOrder accepts these characters only
VersionChars == Range(LowerChars) \cup Range(Digits) \cup {"*", ".", "+", "!", "_"}
ValidVersion(ver) ==
    LET v == Lower(Strip(ver)) IN v # "" /\ \A i \in 1..Len(v) : Ch(v, i) \in VersionChars

\* rule 19, lines 295-301
Version(m) ==
    LET version == Get(package_section(m).val, "version", VNull) IN
    IF version.t # "null" /\ ~ValidVersion(Fmt(version))
    THEN Out(<<"Package version " \o Fmt(version) \o " doesn't match conda spec">>, <<>>, FALSE)
    ELSE NoOut

\* rule 20, lines 303-319
JinjaTidy(dir, f) ==
    IF dir # "None" /\ Exists(f, meta_fname(dir))
    THEN LET bad_lines == SelectSeq(jinja_lines(f.lines),
                                    LAMBDA i : ~ReMatch(good_jinja_pat, f.lines[i]))
         IN IF bad_lines # <<>>
            THEN Out(<<"Jinja2 variable definitions are suggested to take a ''{%<one space>set<one space><variable name><one space>=<one space><expression><one space>%}'' form. See lines "
                       \o IntListStr([i \in 1..Len(bad_lines) |-> bad_lines[i] - 1])>>,
                     <<>>, FALSE)
            ELSE NoOut
    ELSE NoOut

\* lines 333-336
RECURSIVE ScriptsLoop(_)
ScriptsLoop(scripts) ==
    IF scripts = <<>> THEN NoOut
    ELSE LET found == PyIn("python setup.py install", scripts[1])
             mine == IF found.raise THEN Out(<<>>, <<>>, TRUE)
                     ELSE IF found.v THEN Out(<<>>, <<PipHint>>, FALSE) ELSE NoOut
         IN Then(mine, ScriptsLoop(Tail(scripts)))

\* the hint, lines 327-336
SuggestPip(m) ==
    IF ~HasKey(build_section(m).val, "script") THEN NoOut
    ELSE LET scripts0 == Get(build_section(m).val, "script", VNull)
             scripts == IF IsStr(scripts0) THEN [items |-> <<scripts0>>, raise |-> FALSE]
                        ELSE Iterate(scripts0)
         IN IF scripts.raise THEN Out(<<>>, <<>>, TRUE) ELSE ScriptsLoop(scripts.items)

(************************ lintify ******************************************)
\* the rules in the order lintify runs them, lines 104-336
RuleNames == <<"Normalize", "TopLevelKeys", "AboutAndMaintainers", "Tests",
               "LicenseUnknown", "SelectorsTidy", "BuildNumber", "RequirementsOrder",
               "Checksums", "LicenseWord", "TrailingLines", "LicenseFamily",
               "RecipeName", "CondaForge", "NumpyPin", "Subsections",
               "NoarchSelectors", "Version", "JinjaTidy", "Toolchain", "SuggestPip">>

RuleOut(r, m, dir, forge, f, g) ==
    CASE r = "Normalize" -> Normalize(m)
      [] r = "TopLevelKeys" -> TopLevelKeys(m)
      [] r = "AboutAndMaintainers" -> AboutAndMaintainers(m)
      [] r = "Tests" -> Tests(m, dir, f)
      [] r = "LicenseUnknown" -> LicenseUnknown(m)
      [] r = "SelectorsTidy" -> SelectorsTidy(dir, f)
      [] r = "BuildNumber" -> BuildNumber(m)
      [] r = "RequirementsOrder" -> RequirementsOrder(m)
      [] r = "Checksums" -> Checksums(m)
      [] r = "LicenseWord" -> LicenseWord(m)
      [] r = "TrailingLines" -> TrailingLines(dir, f)
      [] r = "LicenseFamily" -> LicenseFamily(m)
      [] r = "RecipeName" -> RecipeName(m)
      [] r = "CondaForge" -> CondaForge(m, dir, forge, g)
      [] r = "NumpyPin" -> NumpyPin(m)
      [] r = "Subsections" -> Subsections(m)
      [] r = "NoarchSelectors" -> NoarchSelectors(m, dir, f)
      [] r = "Version" -> Version(m)
      [] r = "JinjaTidy" -> JinjaTidy(dir, f)
      [] r = "Toolchain" -> Toolchain(m)
      [] OTHER -> SuggestPip(m)

\* the whole of lintify: what it has appended when it returns or raises
Lintify(m, dir, forge, f, g) ==
    ThenAll([i \in 1..Len(RuleNames) |-> RuleOut(RuleNames[i], m, dir, forge, f, g)])

NextRule(r) == IF r = RuleNames[Len(RuleNames)] THEN "return"
               ELSE RuleNames[IndexOf(RuleNames, r) + 1]

\* one rule of lintify acting on the accumulators: o is what the rule adds
Apply(r, o, calls) ==
    /\ lints' = lints \o o.lints
    /\ hints' = hints \o o.hints
    /\ pc' = IF o.raise THEN "raised" ELSE NextRule(r)
    /\ raised_in' = IF o.raise THEN r ELSE raised_in
    /\ gh_calls' = calls
    /\ UNCHANGED inputs

DoNormalize ==
    pc = "Normalize" /\ Apply("Normalize", Normalize(meta), gh_calls)
DoTopLevelKeys ==
    pc = "TopLevelKeys" /\ Apply("TopLevelKeys", TopLevelKeys(meta), gh_calls)
DoAboutAndMaintainers ==
    pc = "AboutAndMaintainers" /\ Apply("AboutAndMaintainers", AboutAndMaintainers(meta), gh_calls)
DoTests ==
    pc = "Tests" /\ Apply("Tests", Tests(meta, recipe_dir, fs), gh_calls)
DoLicenseUnknown ==
    pc = "LicenseUnknown" /\ Apply("LicenseUnknown", LicenseUnknown(meta), gh_calls)
DoSelectorsTidy ==
    pc = "SelectorsTidy" /\ Apply("SelectorsTidy", SelectorsTidy(recipe_dir, fs), gh_calls)
DoBuildNumber ==
    pc = "BuildNumber" /\ Apply("BuildNumber", BuildNumber(meta), gh_calls)
DoRequirementsOrder ==
    pc = "RequirementsOrder" /\ Apply("RequirementsOrder", RequirementsOrder(meta), gh_calls)
DoChecksums ==
    pc = "Checksums" /\ Apply("Checksums", Checksums(meta), gh_calls)
DoLicenseWord ==
    pc = "LicenseWord" /\ Apply("LicenseWord", LicenseWord(meta), gh_calls)
DoTrailingLines ==
    pc = "TrailingLines" /\ Apply("TrailingLines", TrailingLines(recipe_dir, fs), gh_calls)
DoLicenseFamily ==
    pc = "LicenseFamily" /\ Apply("LicenseFamily", LicenseFamily(meta), gh_calls)
DoRecipeName ==
    pc = "RecipeName" /\ Apply("RecipeName", RecipeName(meta), gh_calls)
DoCondaForge ==
    pc = "CondaForge" /\ Apply("CondaForge", CondaForge(meta, recipe_dir, conda_forge, gh), CondaForgeAdv(meta, recipe_dir, conda_forge, gh).calls)
DoNumpyPin ==
    pc = "NumpyPin" /\ Apply("NumpyPin", NumpyPin(meta), gh_calls)
DoSubsections ==
    pc = "Subsections" /\ Apply("Subsections", Subsections(meta), gh_calls)
DoNoarchSelectors ==
    pc = "NoarchSelectors" /\ Apply("NoarchSelectors", NoarchSelectors(meta, recipe_dir, fs), gh_calls)
DoVersion ==
    pc = "Version" /\ Apply("Version", Version(meta), gh_calls)
DoJinjaTidy ==
    pc = "JinjaTidy" /\ Apply("JinjaTidy", JinjaTidy(recipe_dir, fs), gh_calls)
DoToolchain ==
    pc = "Toolchain" /\ Apply("Toolchain", Toolchain(meta), gh_calls)
DoSuggestPip ==
    pc = "SuggestPip" /\ Apply("SuggestPip", SuggestPip(meta), gh_calls)

\* line 338
Return ==
    /\ pc = "return"
    /\ pc' = "returned"
    /\ UNCHANGED <<inputs, lints, hints, gh_calls, raised_in>>

Next ==
    \/ DoNormalize \/ DoTopLevelKeys \/ DoAboutAndMaintainers \/ DoTests
    \/ DoLicenseUnknown \/ DoSelectorsTidy \/ DoBuildNumber \/ DoRequirementsOrder
    \/ DoChecksums \/ DoLicenseWord \/ DoTrailingLines \/ DoLicenseFamily
    \/ DoRecipeName \/ DoCondaForge \/ DoNumpyPin \/ DoSubsections
    \/ DoNoarchSelectors \/ DoVersion \/ DoJinjaTidy \/ DoToolchain
    \/ DoSuggestPip \/ Return

(************************ a direct get_section call ************************)
\* get_section(meta, sec_name, lints), lines 47-58
CallGetSection ==
    /\ pc = "call"
    /\ LET r == get_section(meta, sec_name) IN
       /\ ret' = r.val
       /\ lints' = lints \o r.lints
       /\ pc' = IF r.raise THEN "raised" ELSE "returned"
       /\ raised_in' = IF r.raise THEN "get_section" ELSE raised_in
    /\ UNCHANGED <<meta, recipe_dir, conda_forge, fs, gh, sec_name, hints, gh_calls>>

NextSection == CallGetSection

(************************ the documents checked ****************************)
SeqsUpTo(S, n) == UNION {[1..k -> S] : k \in 0..n}
Distinct(seq) == \A i, j \in 1..Len(seq) : i # j => seq[i] # seq[j]

BasePackage == VMap(<<KV("name", VStr("pkg")), KV("version", VStr("1.0"))>>)
BaseSource == VMap(<<KV("url", VStr("http://x")), KV("sha256", VStr("abc"))>>)
BaseBuild == VMap(<<KV("number", VInt)>>)
BaseRequirements == VMap(<<KV("build", VList(<<VStr("python")>>)),
                           KV("run", VList(<<VStr("python")>>))>>)
BaseTest == VMap(<<KV("imports", VList(<<VStr("pkg")>>))>>)
BaseApp == VMap(<<KV("entry", VStr("pkg"))>>)
BaseOutputs == VList(<<VMap(<<KV("name", VStr("sub"))>>)>>)
BaseAbout == VMap(<<KV("home", VStr("http://x")), KV("license", VStr("MIT")),
                    KV("summary", VStr("a package"))>>)
BaseExtra == VMap(<<KV("recipe-maintainers", VList(<<VStr("alice")>>))>>)

BaseValue(k) ==
    CASE k = "package" -> BasePackage [] k = "source" -> BaseSource
      [] k = "build" -> BaseBuild [] k = "requirements" -> BaseRequirements
      [] k = "test" -> BaseTest [] k = "app" -> BaseApp [] k = "outputs" -> BaseOutputs
      [] k = "about" -> BaseAbout [] k = "extra" -> BaseExtra
      [] OTHER -> VStr("x")

\* the document with the keys ks in this order; over(k) replaces a value
DocWith(ks, over) ==
    VMap([i \in 1..Len(ks) |-> KV(ks[i], IF ks[i] \in DOMAIN over THEN over[ks[i]]
                                          ELSE BaseValue(ks[i]))])
NoOverride == [k \in {} |-> VNull]
Doc(ks) == DocWith(ks, NoOverride)

NoFiles == [paths |-> {}, lines |-> <<>>]
UserTable == [n \in {"alice", "ghost", "down"} |->
                 CASE n = "alice" -> "ok" [] n = "ghost" -> "notfound" [] OTHER -> "fail"]
GhUp == [token |-> TRUE, org |-> "ok", feedstock |-> "notfound", bioconda |-> "ok",
         bio |-> "notfound", user |-> UserTable]

\* the state a lintify call starts in
Start(m, dir, forge, f, g) ==
    /\ pc = "Normalize" /\ meta = m /\ recipe_dir = dir /\ conda_forge = forge
    /\ fs = f /\ gh = g /\ sec_name = "" /\ ret = VNull
    /\ lints = <<>> /\ hints = <<>> /\ gh_calls = <<>> /\ raised_in = ""

(* direct get_section calls: every section name and value shape *)
SectionNames == Range(EXPECTED_SECTION_ORDER)
SectionValues == {VMap(<<>>), BaseSource, VList(<<>>), VList(<<BaseSource>>),
                  VList(<<BaseSource, VMap(<<>>)>>), VStr("text"), VStr(""), VInt, VNull}
PriorFindings == SeqsUpTo({"an earlier finding"}, MaxPrior)

InitSection ==
    /\ pc = "call"
    /\ sec_name \in SectionNames
    /\ \E others \in {<<>>, <<"zzz">>} : \E v \in SectionValues \cup {VStr("absent")} :
          meta = IF v = VStr("absent") THEN Doc(others)
                 ELSE DocWith(others \o <<sec_name>>, [k \in {sec_name} |-> v])
    /\ lints \in PriorFindings
    /\ recipe_dir = "None" /\ conda_forge = FALSE /\ fs = NoFiles /\ gh = GhUp
    /\ ret = VNull /\ hints = <<>> /\ gh_calls = <<>> /\ raised_in = ""

SpecSection == InitSection /\ [][NextSection]_vars

(* top-level keys in every order *)
KeyUniverse == Range(EXPECTED_SECTION_ORDER) \cup {"foo", "bar"}
KeySeqs == {ks \in SeqsUpTo(KeyUniverse, MaxKeys) : Distinct(ks)}

InitKeys == \E ks \in KeySeqs : Start(Doc(ks), "None", FALSE, NoFiles, GhUp)
SpecKeys == InitKeys /\ [][Next]_vars

(* wrong-shaped sections and entries *)
AllSections == EXPECTED_SECTION_ORDER
\* the i-th malformed value of section k
Malformed(k, i) ==
    CASE k = "source" ->
           <<VStr("text"), VNull, VList(<<VInt>>), VList(<<VStr("myurl")>>)>>[i]
      [] k = "outputs" ->
           <<VMap(<<KV("name", VStr("sub"))>>), VStr("text"), VList(<<VStr("sub")>>), VNull>>[i]
      [] k = "about" ->
           <<VList(<<VStr("x")>>), VStr("text"), VNull,
             VMap(<<KV("home", VStr("http://x")), KV("license", VInt),
                    KV("summary", VStr("a package"))>>)>>[i]
      [] k = "build" ->
           <<VList(<<VStr("x")>>), VStr("text"), VNull,
             VMap(<<KV("number", VInt), KV("script", VList(<<VInt>>))>>)>>[i]
      [] k = "extra" ->
           <<VList(<<VStr("x")>>), VStr("text"), VNull,
             VMap(<<KV("recipe-maintainers", VList(<<VInt>>))>>)>>[i]
      [] k = "package" ->
           <<VList(<<VStr("x")>>), VStr("text"), VNull,
             VMap(<<KV("name", VInt), KV("version", VStr("1.0"))>>)>>[i]
      [] k = "requirements" ->
           <<VList(<<VStr("x")>>), VStr("text"), VNull, VMap(<<KV("build", VInt)>>)>>[i]
      [] OTHER -> <<VList(<<VStr("x")>>), VStr("text"), VNull, VInt>>[i]
MalformedChoices == 1..4

InitShapes ==
    \E bad \in {b \in SUBSET Range(AllSections) : Cardinality(b) <= MaxBad} :
    \E which \in [bad -> MalformedChoices] :
    \E forge \in BOOLEAN :
        Start(DocWith(AllSections, [k \in bad |-> Malformed(k, which[k])]),
              "None", forge, NoFiles, GhUp)
SpecShapes == InitShapes /\ [][Next]_vars

(* the tests rule: the test section, the outputs, the test scripts *)
TestsKeys == <<"package", "build", "test", "outputs", "about", "extra">>
TestValues == {VStr("absent"), BaseTest, VMap(<<KV("requires", VList(<<VStr("x")>>))>>),
               VMap(<<KV("files", VNull), KV("commands", VList(<<VStr("true")>>))>>),
               VList(<<VStr("imports")>>)}
OutputEntries ==
    {VMap(<<KV("name", VStr("a")), KV("test", VMap(<<KV("commands", VList(<<VStr("true")>>))>>))>>),
     VMap(<<KV("name", VStr("b"))>>),
     VMap(<<KV("test", VMap(<<KV("requires", VList(<<VStr("x")>>))>>))>>),
     VMap(<<KV("name", VStr("d")), KV("test", VStr("imports"))>>),
     VStr("e")}
OutputsValues == {VStr("absent"), VStr("text")}
                 \cup {VList(es) : es \in SeqsUpTo(OutputEntries, MaxOutputs)}
TestsWorlds == {<<"None", {}>>, <<"None", {"run_test.py"}>>, <<"recipe", {}>>,
                <<"recipe", {"recipe/run_test.sh"}>>, <<"recipe", {"recipe/run_test.txt"}>>}

\* the keys whose value is not the word "absent"
PresentKeys(ks, over) ==
    SelectSeq(ks, LAMBDA k : ~(k \in DOMAIN over /\ over[k] = VStr("absent")))

InitTests ==
    \E t \in TestValues : \E o \in OutputsValues : \E w \in TestsWorlds :
        LET over == [k \in {"test", "outputs"} |-> IF k = "test" THEN t ELSE o] IN
        Start(DocWith(PresentKeys(TestsKeys, over), over), w[1], FALSE,
              [paths |-> w[2], lines |-> <<>>], GhUp)
SpecTests == InitTests /\ [][Next]_vars

(* the raw-text rules: meta.yaml's lines, with and without a recipe directory *)
ScanKeys == <<"package", "build", "requirements", "test", "about", "extra">>
NoarchBuild == VMap(<<KV("number", VInt), KV("noarch", VStr("python"))>>)
FileLines == {"requirements:\n", "  requirements:\n", "  - a  # [win]\n", "about:\n",
              "  run:\n", "  skip: True  # [win]\n", "  \n", "{%set v=1%}\n"}
ScanWorlds == {<<"None", {"meta.yaml"}>>, <<"recipe", {"recipe/meta.yaml"}>>,
               <<"recipe", {}>>, <<"None", {}>>}

InitScan ==
    \E b \in {BaseBuild, NoarchBuild} : \E w \in ScanWorlds :
    \E ls \in SeqsUpTo(FileLines, MaxLines) :
        Start(DocWith(ScanKeys, [k \in {"build"} |-> b]), w[1], FALSE,
              [paths |-> w[2], lines |-> IF w[2] = {} THEN <<>> ELSE ls], GhUp)
SpecScan == InitScan /\ [][Next]_vars

(* the advisory rules: the maintainers and the answers of the remote service *)
ForgeKeys == <<"package", "build", "test", "about", "extra">>
MaintainerEntries == {VStr("alice"), VStr("ghost"), VStr("down"), VStr("org/team"), VInt}
Outcomes == {"ok", "notfound", "fail"}
\* <<recipe_dir, org, feedstock, bioconda, bio>>
ForgeWorlds == {<<"None", "ok", "notfound", "ok", "notfound">>,
                <<"recipe", "fail", "fail", "fail", "fail">>,
                <<"recipes/example/recipe", "ok", "notfound", "ok", "notfound">>,
                <<"pkgs/foo", "fail", "notfound", "ok", "notfound">>,
                <<"pkgs/foo", "ok", "notfound", "fail", "notfound">>}
               \cup {<<"pkgs/foo", "ok", f, "ok", b>> : f \in Outcomes, b \in Outcomes}

InitForge ==
    \E ms \in SeqsUpTo(MaintainerEntries, MaxMaintainers) : \E w \in ForgeWorlds :
    \E token \in BOOLEAN : \E forge \in BOOLEAN :
        Start(DocWith(ForgeKeys,
                      [k \in {"extra"} |-> VMap(<<KV("recipe-maintainers", VList(ms))>>)]),
              w[1], forge,  NoFiles,
              [token |-> token, org |-> w[2], feedstock |-> w[3], bioconda |-> w[4],
               bio |-> w[5], user |-> UserTable])
SpecForge == InitForge /\ [][Next]_vars

(* the source section, as one mapping and as a list *)
SourceKeys == {"url", "sha256", "junk"}
MaxSourceKeys == 2
SourceMappings ==
    {VMap([i \in 1..Len(ks) |-> KV(ks[i], VStr("v"))]) :
        ks \in {q \in SeqsUpTo(SourceKeys, MaxSourceKeys) : Distinct(q)}}
SourceValues == {m : m \in SourceMappings} \cup {VList(<<m>>) : m \in SourceMappings}
                \cup {VList(<<>>), VStr("text")}
SourceDocKeys == {<<"package", "source", "build", "about", "extra">>,
                  <<"source", "package", "zzz">>,
                  <<"package", "build", "outputs", "source">>}
SourceWorlds == {<<"None", {}>>, <<"recipe", {"recipe/meta.yaml"}>>}

InitSource ==
    \E v \in SourceValues : \E ks \in SourceDocKeys : \E w \in SourceWorlds :
    \E forge \in BOOLEAN :
        Start(DocWith(ks, [k \in {"source"} |-> v]), w[1], forge,
              [paths |-> w[2], lines |-> <<"a # [win]\n">>], GhUp)
SpecSource == InitSource /\ [][Next]_vars

(************************ the claims ***************************************)
\* how many times x occurs in seq
Count(seq, x) == Len(SelectSeq(seq, LAMBDA y : y = x))

(************************ C1 ***********************************************)
\* C1: for every parsed document passed to lintify, documents with a
\* wrong-shaped section or entry included, no rule raises: the pass runs every
\* rule to the end and returns, so it never ends in an exception.
C1_NoRuleRaises == pc # "raised"

(************************ C2 ***********************************************)
Maintainers ==
    Get(Get(meta, "extra", VMap(<<>>)), "recipe-maintainers", VList(<<>>)).l
MaintainersAreStrings == \A i \in 1..Len(Maintainers) : Maintainers[i].t = "str"

\* C2: with conda_forge enabled, a remote lookup that fails with anything but
\* not-found, or a lookup capability that cannot be configured, aborts only the
\* advisory rules: lintify never ends in an exception raised by the advisory
\* step, and goes on to the core rules after it.
C2_AdvisoryFailureContained ==
    (conda_forge /\ MaintainersAreStrings) => ~(pc = "raised" /\ raised_in = "CondaForge")

(************************ C3 ***********************************************)
Marker == "an earlier finding"
\* the findings a direct call appended, after the ones already there
Appended == SelectSeq(lints, LAMBDA x : x # Marker)
PriorKept == \A i \in 1..(Len(lints) - Len(Appended)) : lints[i] = Marker
Present == HasKey(meta, sec_name)
Given == Get(meta, sec_name, VNull)

\* C3: get_section normalizes by shape.  For "source" a mapping comes back
\* wrapped in a one-element list and a list comes back unchanged, both with no
\* finding; for "outputs" a list comes back unchanged with no finding; any
\* other present value of the two appends exactly one error and gives [{}].
\* For every other name an absent section gives {} with no finding, a mapping
\* comes back unchanged with no finding, and any other value appends exactly
\* one error and gives {}.
C3_GetSectionByShape ==
    pc = "returned" =>
        /\ PriorKept
        /\ IF sec_name \in {"source", "outputs"}
           THEN Present =>
                  IF sec_name = "source" /\ Given.t = "map"
                  THEN ret = VList(<<Given>>) /\ Appended = <<>>
                  ELSE IF Given.t = "list"
                  THEN ret = Given /\ Appended = <<>>
                  ELSE ret = VList(<<VMap(<<>>)>>) /\ Len(Appended) = 1
           ELSE IF ~Present THEN ret = VMap(<<>>) /\ Appended = <<>>
           ELSE IF Given.t = "map" THEN ret = Given /\ Appended = <<>>
           ELSE ret = VMap(<<>>) /\ Len(Appended) = 1

\* a single mapping given as outputs was refused with one error
C3_Witness ==
    /\ pc = "returned" /\ sec_name = "outputs" /\ Present /\ Given.t = "map"
    /\ Len(Appended) = 1 /\ ret = VList(<<VMap(<<>>)>>) /\ Len(lints) = 2

(************************ C4 ***********************************************)
SourceGiven == Get(meta, "source", VNull)
\* the document with its source mapping put in a one-element list
AsOneElementList ==
    VMap([i \in 1..Len(meta.m) |->
             IF meta.m[i].k = "source" THEN KV("source", VList(<<meta.m[i].v>>))
             ELSE meta.m[i]])

\* C4: lintify on a document whose source is a single mapping m ends with the
\* same errors and hints, in the same order, as lintify on the same document
\* with source set to the one-element list [m], under the same recipe directory,
\* mode, files and remote answers.
C4_SingleMappingAsList ==
    (pc \in {"returned", "raised"} /\ HasKey(meta, "source") /\ SourceGiven.t = "map") =>
        LET o == Lintify(AsOneElementList, recipe_dir, conda_forge, fs, gh) IN
        /\ o.raise = (pc = "raised")
        /\ lints = o.lints
        /\ hints = o.hints

\* a single mapping with a url, no checksum and an unknown subsection: both rules
\* that read the source section have spoken
C4_Witness ==
    /\ pc = "returned" /\ HasKey(meta, "source") /\ SourceGiven.t = "map"
    /\ HasKey(SourceGiven, "url") /\ HasKey(SourceGiven, "junk")
    /\ Count(lints, ChecksumMsg) = 1
    /\ Count(lints, SubsectionMsg("source", "junk")) = 1

(************************ C5 ***********************************************)
Unexpected == SelectSeq(Keys(meta), LAMBDA k : k \notin Range(EXPECTED_SECTION_ORDER))
Kept == SelectSeq(Keys(meta), LAMBDA k : k \in Range(EXPECTED_SECTION_ORDER))
CanonicalIndex(k) == CHOOSE i \in 1..Len(EXPECTED_SECTION_ORDER) : EXPECTED_SECTION_ORDER[i] = k
InCanonicalOrder(ks) ==
    \A i, j \in 1..Len(ks) : i < j => CanonicalIndex(ks[i]) <= CanonicalIndex(ks[j])
KeyFindings ==
    [i \in 1..Len(Unexpected) |-> UnexpectedMsg(Unexpected[i])]
    \o (IF InCanonicalOrder(Kept) THEN <<>>
        ELSE <<OrderMsg(SelectSeq(EXPECTED_SECTION_ORDER, LAMBDA k : k \in Range(Kept)))>>)
LastOf(seq, n) == SubSeq(seq, Len(seq) - n + 1, Len(seq))

\* C5: for every sequence of top-level keys lintify appends one "unexpected"
\* error per key outside the canonical vocabulary, and then exactly one order
\* error listing the expected order if and only if the keys that remain are
\* not in canonical order; unexpected keys neither cause nor suppress it.
C5_KeysAndOrder ==
    pc = "AboutAndMaintainers" =>
        /\ Len(lints) = Len(Normalize(meta).lints) + Len(KeyFindings)
        /\ LastOf(lints, Len(KeyFindings)) = KeyFindings

\* an unexpected key between two keys that are out of order
C5_Witness ==
    /\ pc = "AboutAndMaintainers" /\ Unexpected # <<>> /\ ~InCanonicalOrder(Kept)
    /\ Len(lints) = Len(Unexpected) + 1

(************************ C6 ***********************************************)
HasTest(v) == v.t = "map" /\ \E k \in TEST_KEYS : HasKey(v, k)
TopLevelTest == HasKey(meta, "test") /\ HasTest(Get(meta, "test", VNull))
TestScriptBeside ==
    recipe_dir # "None" /\ \E n \in Range(TEST_FILES) : PathJoin(recipe_dir, n) \in fs.paths
DeclaredOutputs ==
    IF HasKey(meta, "outputs") /\ Get(meta, "outputs", VNull).t = "list"
    THEN Get(meta, "outputs", VNull).l ELSE <<>>
OutputHasTest(out) == out.t = "map" /\ HasTest(Get(out, "test", VNull))
SomeOutputHasTest == \E i \in 1..Len(DeclaredOutputs) : OutputHasTest(DeclaredOutputs[i])
OutputsLackingTest == SelectSeq(DeclaredOutputs, LAMBDA out : ~OutputHasTest(out))
ExpectedTestErrors == IF TopLevelTest \/ TestScriptBeside \/ SomeOutputHasTest THEN 0 ELSE 1
ExpectedTestHints ==
    IF ~(TopLevelTest \/ TestScriptBeside) /\ SomeOutputHasTest
    THEN [i \in 1..Len(OutputsLackingTest) |-> NoTestHint(OutputsLackingTest[i])]
    ELSE <<>>

\* C6: for every document the tests rule decides, without raising: a top-level
\* test with imports or commands, or a test script beside the recipe, gives no
\* "must have some tests" error and no hint; otherwise, when some output has
\* imports or commands in its own test section, no error and one hint per
\* output lacking them, in output order; otherwise exactly one error and no hint.
C6_TestsDecision ==
    /\ ~(pc = "raised" /\ raised_in = "Tests")
    /\ pc = "LicenseUnknown" =>
          /\ Count(lints, TestsMsg) = ExpectedTestErrors
          /\ hints = ExpectedTestHints

(************************ C7 ***********************************************)
\* the leading blanks and tabs of a line
IndentLen(line) ==
    CHOOSE n \in 0..Len(line) :
        /\ \A k \in 1..n : Ch(line, k) \in {" ", "\t"}
        /\ n = Len(line) \/ Ch(line, n + 1) \notin {" ", "\t"}
Indentation(line) == SubSeq(line, 1, IndentLen(line))
IsRequirementsLine(line) == Strip(line) = "requirements:"
\* line i lies after a requirements: line and before the first later line that
\* is indented as that requirements: line is
InRequirementsBlock(ls, i) ==
    \E j \in 1..(i - 1) :
        /\ IsRequirementsLine(ls[j])
        /\ \A k \in (j + 1)..i : Indentation(ls[k]) # Indentation(ls[j])
IsSkipLine(line) == StartsWith(Lstrip(line), "skip:")
OffendingSelector ==
    \E i \in 1..Len(fs.lines) :
        /\ is_selector_line(fs.lines[i])
        /\ InRequirementsBlock(fs.lines, i) \/ IsSkipLine(fs.lines[i])
NoarchGiven == Get(Get(meta, "build", VMap(<<>>)), "noarch", VNull)

\* C7: when build.noarch is set and the recipe file is readable, the scan of
\* the raw lines emits the noarch/selector error exactly once if some selector
\* line lies inside a requirements block or is a skip: line, and not at all
\* otherwise.
C7_NoarchSelectorScan ==
    (pc = "Version" /\ NoarchGiven.t # "null" /\ Exists(fs, meta_fname(recipe_dir))) =>
        Count(lints, NoarchMsg(NoarchGiven)) = IF OffendingSelector THEN 1 ELSE 0

(************************ C8 ***********************************************)
IsTeam(e) == e.t = "str" /\ Contains("/", e.s)
\* the advisory step of a conda_forge pass is over, by return or by exception
AfterAdvisory ==
    conda_forge /\ (pc = "NumpyPin" \/ (pc = "raised" /\ raised_in = "CondaForge"))
MaintainerErrors ==
    SelectSeq(lints, LAMBDA x : \E i \in 1..Len(Maintainers) :
                                    x = MaintainerMsg(Fmt(Maintainers[i])))
LookedUp(es) == SelectSeq(es, LAMBDA e : ~IsTeam(e))
NotFoundOf(es) ==
    SelectSeq(es, LAMBDA e : e.t = "str" /\ ~IsTeam(e) /\ UserOutcome(gh, e.s) = "notfound")
NamesOf(es) == [i \in 1..Len(es) |-> Fmt(es[i])]
ErrorsOf(es) == [i \in 1..Len(es) |-> MaintainerMsg(Fmt(es[i]))]

StagedRecipe == recipe_dir # "None" /\ recipe_dir # "" /\ Basename(recipe_dir) # "recipe"
\* no exception ends run_conda_forge_specific before its maintainer loop
LoopReached ==
    /\ gh.token
    /\ StagedRecipe => /\ gh.org = "ok" /\ gh.feedstock # "fail"
                       /\ gh.bioconda = "ok" /\ gh.bio # "fail"
\* an entry at which an exception leaves the loop
EndsLoop(e) == e.t # "str" \/ (~IsTeam(e) /\ UserOutcome(gh, e.s) = "fail")
EndingEntries == {i \in 1..Len(Maintainers) : EndsLoop(Maintainers[i])}
\* the entries the loop gets to: all of them, or those up to the first that ends it
Processed ==
    IF ~LoopReached THEN <<>>
    ELSE IF EndingEntries = {} THEN Maintainers
    ELSE SubSeq(Maintainers, 1, CHOOSE i \in EndingEntries : \A j \in EndingEntries : i <= j)

C9_NoDirectoryNoFileRead ==
    (pc = "returned" /\ recipe_dir = "None") =>
        LET o == Lintify(meta, "None", conda_forge, NoFiles, gh) IN
        lints = o.lints /\ hints = o.hints

(************************ C10 **********************************************)
\* the shape error get_section has for the top-level section k, if it has one
ShapeError(k) == get_section(meta, k).lints
WrongShaped == {k \in Range(Keys(meta)) \cap Range(EXPECTED_SECTION_ORDER) :
                   ShapeError(k) # <<>>}

\* C10: in one lintify call each wrong-shaped top-level section contributes
\* exactly one shape error to the errors returned.
C10_OneShapeErrorEach ==
    pc = "returned" => \A k \in WrongShaped : Count(lints, ShapeError(k)[1]) = 1

====
